---- MODULE Spec2Model ----
(***************************************************************************)
(* Model of src/script.js: generateSimulation (path generator, momentum    *)
(* statistics, news synthesizer, signal and decision engine) and the       *)
(* playback loop of the page.                                              *)
(*                                                                         *)
(* Numbers are the binary64 numbers of JavaScript: every +, -, *, /,       *)
(* Math.sqrt and comparison of the source is the operation of that name    *)
(* below, with its rounding, its signed zero, Infinity and NaN.  A number  *)
(* literal 0.35 of the source is Num0_35, the number nearest to 35 / 100,  *)
(* written out as its sign, exponent and significand; LiteralsNearest      *)
(* states that each is Lit(35, 100), the quotient correctly rounded.       *)
(* Math.random() returns a multiple of 1 / RandDen; the draws are kept as  *)
(* the numerators.  Array indices, counters and the result of Math.round   *)
(* are integers.                                                           *)
(*                                                                         *)
(* A const of the source that later lines read several times is bound as   *)
(* \E z \in {expression}: its value is computed once, where the source     *)
(* computes it.                                                            *)
(*                                                                         *)
(* Two variables record what the loops did and are read by no action:      *)
(*   fires   the (index, regime) pairs at which line 40 added to drift     *)
(*   steps   per iteration of the decision pass, the positionSize carried  *)
(*           into it and the newsIdx the loop of line 111 left             *)
(*                                                                         *)
(* The playback loop of the page (lines 232-236 and 610-675) is modelled   *)
(* on its own: simData is kept as the number of the simulation and the     *)
(* number of its points, the browser as the animation-frame callbacks it   *)
(* holds (pending for the next frame, running in the current one) and the  *)
(* timestamp it passes to them, and the charts as rendered, the index of   *)
(* the last point updateVisuals drew.  playbackSpeed is whatever number    *)
(* the change handler of lines 672-675 stores.                             *)
(***************************************************************************)
EXTENDS Integers, Sequences, FiniteSets, TLC

VARIABLES pc, length, i, prob, drift, noise, points, newsEvents, decisions,
          mean, variance, std, positionSize, newsIdx,
          source, tape, cursor, replay, prev, fires, steps,
          simData, currentIndex, playing, playbackSpeed, lastFrameTime,
          timestamp, pending, running, rendered, clicks

vars == <<pc, length, i, prob, drift, noise, points, newsEvents, decisions,
          mean, variance, std, positionSize, newsIdx,
          source, tape, cursor, replay, prev, fires, steps,
          simData, currentIndex, playing, playbackSpeed, lastFrameTime,
          timestamp, pending, running, rendered, clicks>>

\* the variables of generateSimulation
core == <<pc, length, i, prob, drift, noise, points, newsEvents, decisions,
          mean, variance, std, positionSize, newsIdx,
          source, tape, cursor, replay, prev, fires, steps>>

\* the variables of the page that plays a simulation
page == <<simData, currentIndex, playing, playbackSpeed, lastFrameTime,
          timestamp, pending, running, rendered, clicks>>

----------------------------------------------------------------------------
(* Bounds of the model *)

\* every length up to MaxLength runs under every sequence of random draws
MaxLength == 6

\* longer runs are explored under the constant random sources only
LongLengths == {11, 16, 18, 30, 56}

Lengths == (0..MaxLength) \cup LongLengths

\* Math.random() returns u / RandDen for a u in Rand
RandDen == 4

Rand == {0, 3}

----------------------------------------------------------------------------
(* IEEE-754 binary64 numbers, as JavaScript computes with them.            *)
(* A number is a record [k, s, e, m]: k is "num", "inf" or "nan", s the    *)
(* sign bit, and for k = "num" the value is (-1)^s * m * 2^e, where m is   *)
(* a natural number below 2^53 held as four limbs of 14 bits, lowest       *)
(* first.  A normal number has m >= 2^52; a subnormal one has e = -1074;   *)
(* zero has m = 0 and e = 0.  Every operation rounds to nearest, ties to   *)
(* even.                                                                   *)

\* the base of a limb
Base == 16384

LimbBits == 14

\* bits of a significand
Precision == 53

\* exponent of the lowest bit of a subnormal number, and of the largest
\* finite numbers
MinExp == -1074

MaxExp == 971

\* the powers of two up to Base
Powers == <<1, 2, 4, 8, 16, 32, 64, 128, 256, 512, 1024, 2048, 4096, 8192, 16384>>

Pow2(n) == Powers[n + 1]

\* A natural number is a tuple of limbs, lowest first; the operations
\* return eight limbs, enough for a product of two significands.

\* limb j of the natural number a, counted from 1
Limb(a, j) == IF j \in 1..Len(a) THEN a[j] ELSE 0

\* number of bits of one limb
BitLenLimb(x) == Cardinality({n \in 1..LimbBits : Powers[n] <= x})

\* the highest limb of a that is not zero, 0 when there is none
TopLimb(a) ==
    LET set == {j \in 1..Len(a) : a[j] # 0}
    IN  IF set = {} THEN 0 ELSE CHOOSE j \in set : \A h \in set : h <= j

\* number of bits of the natural number a
BitLen(a) ==
    LET j == TopLimb(a)
    IN  IF j = 0 THEN 0 ELSE LimbBits * (j - 1) + BitLenLimb(a[j])

IsZeroNat(a) == \A j \in 1..Len(a) : a[j] = 0

\* a * 2^n, below Base^8
ShiftLeft(a, n) ==
    LET q == n \div LimbBits
        r == n % LimbBits
        up == Pow2(r)
        down == Pow2(LimbBits - r)
        at(j) == (Limb(a, j - q) % down) * up + Limb(a, j - q - 1) \div down
    IN  <<at(1), at(2), at(3), at(4), at(5), at(6), at(7), at(8)>>

\* floor(a / 2^n)
ShiftRight(a, n) ==
    LET q == n \div LimbBits
        r == n % LimbBits
        down == Pow2(r)
        up == Pow2(LimbBits - r)
        at(j) == Limb(a, j + q) \div down + (Limb(a, j + q + 1) % down) * up
    IN  <<at(1), at(2), at(3), at(4), at(5), at(6), at(7), at(8)>>

\* a is not a multiple of 2^n
LowBits(a, n) ==
    LET q == n \div LimbBits
        r == n % LimbBits
    IN  \/ \E j \in 1..Len(a) : j <= q /\ a[j] # 0
        \/ Limb(a, q + 1) % Pow2(r) # 0

\* a + b, below Base^8
AddNat(a, b) ==
    LET t1 == Limb(a, 1) + Limb(b, 1)
        t2 == Limb(a, 2) + Limb(b, 2) + t1 \div Base
        t3 == Limb(a, 3) + Limb(b, 3) + t2 \div Base
        t4 == Limb(a, 4) + Limb(b, 4) + t3 \div Base
        t5 == Limb(a, 5) + Limb(b, 5) + t4 \div Base
        t6 == Limb(a, 6) + Limb(b, 6) + t5 \div Base
        t7 == Limb(a, 7) + Limb(b, 7) + t6 \div Base
        t8 == Limb(a, 8) + Limb(b, 8) + t7 \div Base
    IN  <<t1 % Base, t2 % Base, t3 % Base, t4 % Base,
          t5 % Base, t6 % Base, t7 % Base, t8 % Base>>

\* a - b, for a >= b
SubNat(a, b) ==
    LET t1 == Base + Limb(a, 1) - Limb(b, 1)
        t2 == Base + Limb(a, 2) - Limb(b, 2) - (1 - t1 \div Base)
        t3 == Base + Limb(a, 3) - Limb(b, 3) - (1 - t2 \div Base)
        t4 == Base + Limb(a, 4) - Limb(b, 4) - (1 - t3 \div Base)
        t5 == Base + Limb(a, 5) - Limb(b, 5) - (1 - t4 \div Base)
        t6 == Base + Limb(a, 6) - Limb(b, 6) - (1 - t5 \div Base)
        t7 == Base + Limb(a, 7) - Limb(b, 7) - (1 - t6 \div Base)
        t8 == Base + Limb(a, 8) - Limb(b, 8) - (1 - t7 \div Base)
    IN  <<t1 % Base, t2 % Base, t3 % Base, t4 % Base,
          t5 % Base, t6 % Base, t7 % Base, t8 % Base>>

\* the sign of a - b
CmpNat(a, b) ==
    LET set == {j \in 1..8 : Limb(a, j) # Limb(b, j)}
        top == CHOOSE j \in set : \A h \in set : h <= j
    IN  IF set = {} THEN 0 ELSE IF Limb(a, top) > Limb(b, top) THEN 1 ELSE -1

\* a * b for a and b of at most four limbs
MulNat(a, b) ==
    LET col(k) == Limb(a, 1) * Limb(b, k) + Limb(a, 2) * Limb(b, k - 1)
                    + Limb(a, 3) * Limb(b, k - 2) + Limb(a, 4) * Limb(b, k - 3)
        t1 == col(1)
        t2 == col(2) + t1 \div Base
        t3 == col(3) + t2 \div Base
        t4 == col(4) + t3 \div Base
        t5 == col(5) + t4 \div Base
        t6 == col(6) + t5 \div Base
        t7 == col(7) + t6 \div Base
    IN  <<t1 % Base, t2 % Base, t3 % Base, t4 % Base,
          t5 % Base, t6 % Base, t7 % Base, t7 \div Base>>

\* a * d for one limb d
MulLimb(a, d) ==
    LET t1 == Limb(a, 1) * d
        t2 == Limb(a, 2) * d + t1 \div Base
        t3 == Limb(a, 3) * d + t2 \div Base
        t4 == Limb(a, 4) * d + t3 \div Base
        t5 == Limb(a, 5) * d + t4 \div Base
        t6 == Limb(a, 6) * d + t5 \div Base
        t7 == Limb(a, 7) * d + t6 \div Base
    IN  <<t1 % Base, t2 % Base, t3 % Base, t4 % Base,
          t5 % Base, t6 % Base, t7 % Base, t7 \div Base>>

\* the natural number n < 2^31 in limbs
NatOf(n) == <<n % Base, (n \div Base) % Base, n \div (Base * Base), 0>>

\* the natural number a < 2^31 as an integer
IntOf(a) == Limb(a, 1) + Base * Limb(a, 2) + Base * Base * Limb(a, 3)

\* the lowest four limbs
Low4(a) == <<Limb(a, 1), Limb(a, 2), Limb(a, 3), Limb(a, 4)>>

Zero(s) == [k |-> "num", s |-> s, e |-> 0, m |-> <<0, 0, 0, 0>>]

Infinity(s) == [k |-> "inf", s |-> s, e |-> 0, m |-> <<0, 0, 0, 0>>]

NaN == [k |-> "nan", s |-> 0, e |-> 0, m |-> <<0, 0, 0, 0>>]

IsNaN(x) == x.k = "nan"

IsZero(x) == x.k = "num" /\ x.m = <<0, 0, 0, 0>>

\* the number (-1)^s * m * 2^e, for m of at most Precision bits
Finite(s, m, e) ==
    IF e > MaxExp THEN Infinity(s)
    ELSE IF IsZeroNat(m) THEN Zero(s)
    ELSE [k |-> "num", s |-> s, e |-> e, m |-> Low4(m)]

\* the number (-1)^s * r * 2^e, for r of at most Precision bits or 2^Precision
Carried(s, r, e) ==
    IF BitLen(r) > Precision
    THEN Finite(s, ShiftRight(r, 1), e + 1)
    ELSE Finite(s, r, e)

\* kept or the next number up: up when the part dropped is above one half,
\* or is one half and kept is odd
Nearest(s, kept, e, half, rest) ==
    Carried(s, IF half /\ (rest \/ kept[1] % 2 = 1) THEN AddNat(kept, <<1>>) ELSE kept, e)

\* Round, with the lowest cut bits of a dropped
RoundAt(s, a, e, sticky, cut) ==
    IF cut <= 0
    THEN [k |-> "num", s |-> s, e |-> e + cut, m |-> Low4(ShiftLeft(a, -cut))]
    ELSE Nearest(s, ShiftRight(a, cut), e + cut,
                 Limb(ShiftRight(a, cut - 1), 1) % 2 = 1,
                 sticky \/ LowBits(a, cut - 1))

\* the number nearest to (-1)^s * (a + f) * 2^e, where 0 <= f < 1 and
\* sticky tells whether f > 0
Round(s, a, e, sticky) ==
    IF IsZeroNat(a) THEN Zero(s)
    ELSE RoundAt(s, a, e, sticky,
                 IF e + (BitLen(a) - Precision) < MinExp
                 THEN MinExp - e ELSE BitLen(a) - Precision)

\* the number (-1)^s * a, for a of bits bits, 0 < bits <= Precision: it is
\* exact, the significand is a moved up to Precision bits
Exact(s, a, bits) ==
    [k |-> "num", s |-> s, e |-> bits - Precision,
     m |-> Low4(ShiftLeft(a, Precision - bits))]

FromNat(s, n) == IF n = 0 THEN Zero(s) ELSE Exact(s, NatOf(n), BitLen(NatOf(n)))

\* the integer n, |n| < 2^31
FromInt(n) == FromNat(IF n < 0 THEN 1 ELSE 0, IF n < 0 THEN -n ELSE n)

\* -x
Neg(x) == [x EXCEPT !.s = 1 - x.s]

\* Math.abs(x)
MathAbs(x) == [x EXCEPT !.s = 0]

\* the sign of |x| - |y| for two numbers that are not NaN
CmpMag(x, y) ==
    IF x.k = "inf" \/ y.k = "inf"
    THEN (IF x.k = "inf" THEN 1 ELSE 0) - (IF y.k = "inf" THEN 1 ELSE 0)
    ELSE IF IsZero(x) \/ IsZero(y)
    THEN (IF IsZero(x) THEN 0 ELSE 1) - (IF IsZero(y) THEN 0 ELSE 1)
    ELSE LET ex == x.e + BitLen(x.m)
             ey == y.e + BitLen(y.m)
         IN  IF ex # ey THEN (IF ex > ey THEN 1 ELSE -1)
             ELSE IF x.e >= y.e
                  THEN CmpNat(ShiftLeft(x.m, x.e - y.e), y.m)
                  ELSE CmpNat(x.m, ShiftLeft(y.m, y.e - x.e))

\* the sign of x - y for two numbers that are not NaN
Cmp(x, y) ==
    IF IsZero(x) /\ IsZero(y) THEN 0
    ELSE IF x.s # y.s THEN (IF x.s = 0 THEN 1 ELSE -1)
    ELSE (1 - 2 * x.s) * CmpMag(x, y)

\* x < y, x <= y, x > y, x >= y, x === y
Lt(x, y) == ~IsNaN(x) /\ ~IsNaN(y) /\ Cmp(x, y) < 0

Le(x, y) == ~IsNaN(x) /\ ~IsNaN(y) /\ Cmp(x, y) <= 0

Gt(x, y) == Lt(y, x)

Ge(x, y) == Le(y, x)

Eq(x, y) == ~IsNaN(x) /\ ~IsNaN(y) /\ Cmp(x, y) = 0

\* (-1)^s * (a + b) * 2^e when same, (-1)^s * (a - b) * 2^e otherwise, for
\* a >= b; a difference of zero is +0
AddBits(s, a, b, e, same) ==
    IF ~same /\ CmpNat(a, b) = 0 THEN Zero(0)
    ELSE Round(s, IF same THEN AddNat(a, b) ELSE SubNat(a, b), e, FALSE)

\* x + y for finite x and y, |x| >= |y|, y not zero
AddOrdered(x, y) ==
    IF x.e - y.e > Precision + 2 THEN x
    ELSE AddBits(x.s, ShiftLeft(x.m, x.e - y.e), y.m, y.e, x.s = y.s)

\* x + y
Add(x, y) ==
    IF IsNaN(x) \/ IsNaN(y) THEN NaN
    ELSE IF x.k = "inf" THEN (IF y.k = "inf" /\ y.s # x.s THEN NaN ELSE x)
    ELSE IF y.k = "inf" THEN y
    ELSE IF IsZero(x) /\ IsZero(y) THEN Zero(IF x.s = 1 /\ y.s = 1 THEN 1 ELSE 0)
    ELSE IF IsZero(y) THEN x
    ELSE IF IsZero(x) THEN y
    ELSE AddOrdered(IF CmpMag(x, y) >= 0 THEN x ELSE y,
                    IF CmpMag(x, y) >= 0 THEN y ELSE x)

\* x - y
Sub(x, y) == Add(x, Neg(y))

\* x * y
Mul(x, y) ==
    LET s == IF x.s = y.s THEN 0 ELSE 1
    IN  IF IsNaN(x) \/ IsNaN(y) THEN NaN
        ELSE IF x.k = "inf" \/ y.k = "inf"
        THEN (IF IsZero(x) \/ IsZero(y) THEN NaN ELSE Infinity(s))
        ELSE IF IsZero(x) \/ IsZero(y) THEN Zero(s)
        ELSE Round(s, MulNat(x.m, y.m), x.e + y.e, FALSE)

\* floor((r * Base + limb) / d) and what is left, for r < d and d of at
\* least 17 bits: the digit is guessed low from the leading 16 bits of d
\* and raised until the remainder is below d
DigitRaise(d, guess, low) ==
    LET more == Cardinality({c \in 1..3 : CmpNat(MulLimb(d, c), low) <= 0})
    IN  [q |-> guess + more, r |-> Low4(SubNat(low, MulLimb(d, more)))]

DigitGuess(r1, d, guess) == DigitRaise(d, guess, SubNat(r1, MulLimb(d, guess)))

DigitStep(r, limb, d) ==
    IF r = <<0, 0, 0, 0>> /\ limb = 0 THEN [q |-> 0, r |-> r]
    ELSE DigitGuess(<<limb, r[1], r[2], r[3], r[4]>>, d,
                    IntOf(ShiftRight(<<limb, r[1], r[2], r[3], r[4]>>, BitLen(d) - 16))
                        \div (IntOf(ShiftRight(d, BitLen(d) - 16)) + 1))

\* floor((r * Base^4 + a) / d) and what is left, for r < d and a of four
\* limbs
\* DivNat after the digits in q, lowest first: the limbs of a from j down
\* are still to be divided
RECURSIVE DivDigits(_, _, _, _, _)
DivDigits(q, step, a, d, j) ==
    IF j = 0 THEN [q |-> <<step.q>> \o q, r |-> step.r]
    ELSE DivDigits(<<step.q>> \o q, DigitStep(step.r, a[j], d), a, d, j - 1)

DivNat(r, a, d) == DivDigits(<<>>, DigitStep(r, a[4], d), a, d, 3)

\* the number nearest to (-1)^s * (first * Base^4 + digits.q + f) * 2^e,
\* where f > 0 iff the division left a remainder
Quotient(s, first, digits, e) ==
    Round(s, digits.q \o <<first>>, e, digits.r # <<0, 0, 0, 0>>)

\* (-1)^s * (a / d) * 2^e for significands d <= a < 2 * d: the quotient is
\* 1 and four more limbs of (a - d) / d
DivOrdered(s, a, d, e) ==
    Quotient(s, 1, DivNat(Low4(SubNat(a, d)), <<0, 0, 0, 0>>, d), e - 4 * LimbBits)

\* (-1)^s * (a / d) * 2^e for significands a and d of Precision bits: a
\* below d is doubled
DivBits(s, a, d, e) ==
    DivOrdered(s, IF CmpNat(a, d) >= 0 THEN a ELSE ShiftLeft(a, 1), d,
               IF CmpNat(a, d) >= 0 THEN e ELSE e - 1)

\* x / y
Div(x, y) ==
    LET s == IF x.s = y.s THEN 0 ELSE 1
    IN  CASE IsNaN(x) \/ IsNaN(y) -> NaN
          [] x.k = "inf" -> IF y.k = "inf" THEN NaN ELSE Infinity(s)
          [] y.k = "inf" -> Zero(s)
          [] IsZero(y) -> IF IsZero(x) THEN NaN ELSE Infinity(s)
          [] IsZero(x) -> Zero(s)
          [] OTHER ->
               LET sx == Precision - BitLen(x.m)
                   sy == Precision - BitLen(y.m)
               IN  DivBits(s, Low4(ShiftLeft(x.m, sx)), Low4(ShiftLeft(y.m, sy)),
                           (x.e - sx) - (y.e - sy))

\* one step of Newton's iteration for the square root of a:
\* floor((r + floor(a / r)) / 2), for r >= floor(sqrt(a)) >= 2^54
RootStep(a, r) ==
    IF IsZeroNat(r) THEN r
    ELSE Low4(ShiftRight(AddNat(r, DivNat(<<a[5], a[6], a[7], a[8]>>, a, r).q), 1))

\* floor(sqrt(a)) for a of 109 or 110 bits: Newton's iteration down from
\* 2^55, which halves the error and then squares it at each step, so that
\* seven steps end at the root or one above it
RECURSIVE RootSteps(_, _, _)
RootSteps(a, r, n) == IF n = 0 THEN r ELSE RootSteps(a, RootStep(a, r), n - 1)

\* r, r - 1 or r + 1: the one whose square is the largest not above a
RootSettle(a, r) ==
    IF CmpNat(MulNat(r, r), a) > 0 THEN Low4(SubNat(r, <<1>>))
    ELSE IF CmpNat(MulNat(Low4(AddNat(r, <<1>>)), Low4(AddNat(r, <<1>>))), a) <= 0
    THEN Low4(AddNat(r, <<1>>))
    ELSE r

RootNat(a) == RootSettle(a, RootSteps(a, <<0, 0, 0, 8192>>, 7))

\* the number nearest to sqrt(a * 2^e), for a of 109 or 110 bits and even e
RootRound(a, r, e) == Round(0, r, e, MulNat(r, r) # a)

RootBits(a, e) == RootRound(a, RootNat(a), e \div 2)

\* Math.sqrt(x)
MathSqrt(x) ==
    CASE IsNaN(x) -> NaN
      [] IsZero(x) -> x
      [] x.s = 1 -> NaN
      [] x.k = "inf" -> x
      [] OTHER ->
           LET sx == Precision - BitLen(x.m)
               odd == (x.e - sx) % 2
           IN  RootBits(ShiftLeft(x.m, sx + odd + 56), x.e - sx - odd - 56)

\* Math.max(x, y) and Math.min(x, y)
MathMax(x, y) ==
    IF IsNaN(x) \/ IsNaN(y) THEN NaN
    ELSE IF IsZero(x) /\ IsZero(y) THEN Zero(IF x.s = 0 \/ y.s = 0 THEN 0 ELSE 1)
    ELSE IF Cmp(x, y) >= 0 THEN x ELSE y

MathMin(x, y) ==
    IF IsNaN(x) \/ IsNaN(y) THEN NaN
    ELSE IF IsZero(x) /\ IsZero(y) THEN Zero(IF x.s = 1 \/ y.s = 1 THEN 1 ELSE 0)
    ELSE IF Cmp(x, y) <= 0 THEN x ELSE y

\* floor(x) as an integer, for a finite x with |x| < 2^30
FloorInt(x) ==
    IF IsZero(x) THEN 0
    ELSE LET whole == IF x.e >= 0 THEN ShiftLeft(x.m, x.e) ELSE ShiftRight(x.m, -x.e)
             n == Limb(whole, 1) + Base * Limb(whole, 2) + Base * Base * Limb(whole, 3)
             part == x.e < 0 /\ LowBits(x.m, -x.e)
         IN  IF x.s = 0 THEN n ELSE IF part THEN -n - 1 ELSE -n

\* Math.round(x) as an integer: floor(x + 1/2), for a finite x
RoundInt(x) ==
    IF IsZero(x) THEN 0
    ELSE LET twice == FloorInt([x EXCEPT !.e = x.e + 1])
         IN  (twice + 1) \div 2
----------------------------------------------------------------------------
(* Utility helpers *)

Max(a, b) == IF a >= b THEN a ELSE b

Min(a, b) == IF a <= b THEN a ELSE b

\* the number literal n / d, d a power of ten
Lit(n, d) == Div(FromInt(n), FromInt(d))

\* the number literals of the source: a decimal literal is the double
\* nearest to it, given by its sign, exponent and significand
Int0 == FromInt(0)

Int1 == FromInt(1)

Int100 == FromInt(100)

Int2 == FromInt(2)

Int20 == FromInt(20)

Int4 == FromInt(4)

Int45 == FromInt(45)

Int6 == FromInt(6)

Int70 == FromInt(70)

IntNeg1 == FromInt(-1)

\* 0.02, the double 0x1.47ae147ae147bp-6
Num0_02 ==
    [k |-> "num", s |-> 0, e |-> -58, m |-> <<5243, 7864, 11796, 1310>>]

\* 0.025, the double 0x1.999999999999ap-6
Num0_025 ==
    [k |-> "num", s |-> 0, e |-> -58, m |-> <<6554, 9830, 6553, 1638>>]

\* 0.03, the double 0x1.eb851eb851eb8p-6
Num0_03 ==
    [k |-> "num", s |-> 0, e |-> -58, m |-> <<7864, 11796, 1310, 1966>>]

\* 0.04, the double 0x1.47ae147ae147bp-5
Num0_04 ==
    [k |-> "num", s |-> 0, e |-> -57, m |-> <<5243, 7864, 11796, 1310>>]

\* 0.1225, the double 0x1.f5c28f5c28f5cp-4
Num0_1225 ==
    [k |-> "num", s |-> 0, e |-> -56, m |-> <<3932, 5898, 655, 2007>>]

\* 0.2, the double 0x1.999999999999ap-3
Num0_2 ==
    [k |-> "num", s |-> 0, e |-> -55, m |-> <<6554, 9830, 6553, 1638>>]

\* 0.3, the double 0x1.3333333333333p-2
Num0_3 ==
    [k |-> "num", s |-> 0, e |-> -54, m |-> <<13107, 3276, 13107, 1228>>]

\* 0.35, the double 0x1.6666666666666p-2
Num0_35 ==
    [k |-> "num", s |-> 0, e |-> -54, m |-> <<9830, 6553, 9830, 1433>>]

\* 0.4, the double 0x1.999999999999ap-2
Num0_4 ==
    [k |-> "num", s |-> 0, e |-> -54, m |-> <<6554, 9830, 6553, 1638>>]

\* 0.5, the double 0x1.0000000000000p-1
Num0_5 ==
    [k |-> "num", s |-> 0, e |-> -53, m |-> <<0, 0, 0, 1024>>]

\* 0.6, the double 0x1.3333333333333p-1
Num0_6 ==
    [k |-> "num", s |-> 0, e |-> -53, m |-> <<13107, 3276, 13107, 1228>>]

\* 0.7, the double 0x1.6666666666666p-1
Num0_7 ==
    [k |-> "num", s |-> 0, e |-> -53, m |-> <<9830, 6553, 9830, 1433>>]

\* 0.96, the double 0x1.eb851eb851eb8p-1
Num0_96 ==
    [k |-> "num", s |-> 0, e |-> -53, m |-> <<7864, 11796, 1310, 1966>>]

\* 0.995, the double 0x1.fd70a3d70a3d7p-1
Num0_995 ==
    [k |-> "num", s |-> 0, e |-> -53, m |-> <<9175, 13762, 12451, 2037>>]

\* 1.3, the double 0x1.4cccccccccccdp+0
Num1_3 ==
    [k |-> "num", s |-> 0, e |-> -52, m |-> <<3277, 13107, 3276, 1331>>]

\* 1e-06, the double 0x1.0c6f7a0b5ed8dp-20
Num1em6 ==
    [k |-> "num", s |-> 0, e |-> -72, m |-> <<11661, 727, 12154, 1073>>]

\* 2.4, the double 0x1.3333333333333p+1
Num2_4 ==
    [k |-> "num", s |-> 0, e |-> -51, m |-> <<13107, 3276, 13107, 1228>>]

\* every decimal literal above is its numerator over its power of ten,
\* correctly rounded
LiteralsNearest ==
    /\ Num0_02 = Lit(2, 100)
    /\ Num0_025 = Lit(25, 1000)
    /\ Num0_03 = Lit(3, 100)
    /\ Num0_04 = Lit(4, 100)
    /\ Num0_1225 = Lit(1225, 10000)
    /\ Num0_2 = Lit(2, 10)
    /\ Num0_3 = Lit(3, 10)
    /\ Num0_35 = Lit(35, 100)
    /\ Num0_4 = Lit(4, 10)
    /\ Num0_5 = Lit(5, 10)
    /\ Num0_6 = Lit(6, 10)
    /\ Num0_7 = Lit(7, 10)
    /\ Num0_96 = Lit(96, 100)
    /\ Num0_995 = Lit(995, 1000)
    /\ Num1_3 = Lit(13, 10)
    /\ Num1em6 = Lit(1, 1000000)
    /\ Num2_4 = Lit(24, 10)

\* Math.max(min, Math.min(max, v))
clamp(v, min, max) == MathMax(min, MathMin(max, v))

\* the value of a Math.random() call that drew u
Randoms == [u \in 0..RandDen |-> Lit(u, RandDen)]

MathRandom(u) == Randoms[u]

\* raw = prev + (Math.random() - 0.5) * intensity; clamp(raw, -1, 1)
smoothNoise(prv, intensity, u) ==
    LET raw == Add(prv, Mul(Sub(MathRandom(u), Num0_5), intensity))
    IN  clamp(raw, IntNeg1, Int1)

----------------------------------------------------------------------------
(* Path generator *)

timeMax == Int100

\* dt taken as timeMax / length
dtLength(len) == Div(timeMax, FromInt(len))

\* const dt = timeMax / (length - 1)
dt(len) == Div(timeMax, FromInt(len - 1))

regimeTimes == <<Int20, Int45, Int70>>

regimeEffects == <<Num0_02, Neg(Num0_03), Num0_025>>

\* Math.abs(t - regimeTimes[r]) < dt / 2
RegimeHit(t, step, r) ==
    Lt(MathAbs(Sub(t, regimeTimes[r])), Div(step, Int2))

\* regime r when its branch at line 39 is taken at time t
RegimeFire(k, t, step, r) ==
    IF RegimeHit(t, step, r) THEN <<[index |-> k, regime |-> r]>> ELSE <<>>

\* the regimes from r on whose branch at line 39 is taken at time t, in
\* loop order
RECURSIVE RegimeFiresFrom(_, _, _, _)
RegimeFiresFrom(k, t, step, r) ==
    IF r > Len(regimeTimes) THEN <<>>
    ELSE RegimeFire(k, t, step, r) \o RegimeFiresFrom(k, t, step, r + 1)

\* the regimes whose branch at line 39 is taken at index k = t / dt
RegimeFires(len, k) == RegimeFiresFrom(k, Mul(FromInt(k), dt(len)), dt(len), 1)

\* drift after the inner loop of lines 38-42 from regime r on
RECURSIVE RegimeBump(_, _, _, _)
RegimeBump(d, t, step, r) ==
    IF r > Len(regimeTimes) THEN d
    ELSE RegimeBump(IF RegimeHit(t, step, r) THEN Add(d, regimeEffects[r]) ELSE d,
                    t, step, r + 1)

\* drift * 0.04 + noise * 0.02
StepChange(d, n) == Add(Mul(d, Num0_04), Mul(n, Num0_02))

ProbMin == Num0_04

ProbMax == Num0_96

\* NextProb without the clamp
NextProbUnclamped(p, stepChange) == Add(p, stepChange)

\* prob = clamp(prob + stepChange, 0.04, 0.96)
NextProb(p, stepChange) == clamp(Add(p, stepChange), ProbMin, ProbMax)

----------------------------------------------------------------------------
(* The random source: Math.random().  A first run draws freely and records *)
(* what it drew on the tape; a second run of the same length is fed the    *)
(* tape back, draw by draw.                                                *)

\* the values the k-th Math.random() call of the current step may return
Draw(k) ==
    IF replay /\ cursor + k <= Len(tape) THEN {tape[cursor + k]} ELSE source

\* the random sources a run of the given length is explored under
Sources(len) == IF len <= MaxLength THEN {Rand} ELSE {{u} : u \in Rand}

\* the current step has called Math.random() Len(us) times
Consume(us) ==
    /\ tape' = IF replay THEN tape ELSE tape \o us
    /\ cursor' = IF replay THEN cursor + Len(us) ELSE cursor

----------------------------------------------------------------------------
(* Momentum statistics *)

\* momenta.reduce((s, m) => s + m, acc) over points lo..hi, in index order
RECURSIVE SumMomenta(_, _, _, _)
SumMomenta(pts, acc, lo, hi) ==
    IF lo > hi THEN acc
    ELSE IF lo = hi THEN Add(acc, pts[lo].momentum)
    ELSE LET mid == (lo + hi) \div 2
             left == SumMomenta(pts, acc, lo, mid)
         IN  IF IsNaN(left) THEN left ELSE SumMomenta(pts, left, mid + 1, hi)

\* momenta.reduce((s, m) => s + m, 0) / momenta.length
MeanOf(pts) == Div(SumMomenta(pts, Int0, 1, Len(pts)), FromInt(Len(pts)))

\* momenta.reduce((s, m) => s + (m - mean) * (m - mean), acc) over points
\* lo..hi, in index order
RECURSIVE SumSquares(_, _, _, _, _)
SumSquares(pts, mu, acc, lo, hi) ==
    IF lo > hi THEN acc
    ELSE IF lo = hi
    THEN Add(acc, Mul(Sub(pts[lo].momentum, mu), Sub(pts[lo].momentum, mu)))
    ELSE LET mid == (lo + hi) \div 2
             left == SumSquares(pts, mu, acc, lo, mid)
         IN  IF IsNaN(left) THEN left ELSE SumSquares(pts, mu, left, mid + 1, hi)

\* momenta.reduce((s, m) => s + (m - mean) * (m - mean), 0) / momenta.length
VarianceOf(pts, mu) ==
    Div(SumSquares(pts, mu, Int0, 1, Len(pts)), FromInt(Len(pts)))

\* Math.sqrt(variance) || 1e-6
StdOr(root) == IF IsNaN(root) \/ IsZero(root) THEN Num1em6 ELSE root

\* const std = Math.sqrt(variance) || 1e-6
StdOf(v) == StdOr(MathSqrt(v))

\* z = (p.momentum - mean) / std
Z(m) == Div(Sub(m, mean), std)

----------------------------------------------------------------------------
(* generateSimulation: entry and path pass *)

InitProb == Num0_5

PhaseAfterCall(len) == IF 0 < len THEN "path" ELSE "stats"

\* InitLocals with noise kept from the run before
InitLocalsStale ==
    /\ prob' = InitProb
    /\ drift' = Int0
    /\ noise' = noise

\* let prob = 0.5; let drift = 0.0; let noise = 0.0;
InitLocals ==
    /\ prob' = InitProb
    /\ drift' = Int0
    /\ noise' = Int0

Enter(len) ==
    /\ length' = len
    /\ points' = <<>>
    /\ newsEvents' = <<>>
    /\ InitLocals
    /\ fires' = <<>>
    /\ steps' = <<>>
    /\ i' = 0
    /\ pc' = PhaseAfterCall(len)
    /\ UNCHANGED <<decisions, mean, variance, std, positionSize, newsIdx>>

\* generateSimulation({ length }) is called
Call ==
    /\ UNCHANGED page
    /\ pc = "idle"
    /\ \E len \in Lengths : \E src \in Sources(len) :
         /\ Enter(len)
         /\ source' = src
    /\ UNCHANGED <<tape, cursor, replay, prev>>

Output == [points |-> points, newsEvents |-> newsEvents, decisions |-> decisions]

\* a second call with the same length, fed the same random draws
CallAgain ==
    /\ UNCHANGED page
    /\ pc = "done"
    /\ ~replay
    /\ prev' = Output
    /\ replay' = TRUE
    /\ cursor' = 1
    /\ Enter(length)
    /\ UNCHANGED <<tape, source>>

\* one iteration of the loop at lines 34-63
PathStep ==
    /\ UNCHANGED page
    /\ pc = "path"
    /\ i < length
    /\ \E step \in {dt(length)} : \E t \in {Mul(FromInt(i), step)} :
         /\ drift' = RegimeBump(drift, t, step, 1)
         /\ fires' = fires \o RegimeFiresFrom(i, t, step, 1)
         /\ \E u \in Draw(0) :
              /\ noise' = smoothNoise(noise, Num0_35, u)
              /\ prob' = NextProb(prob, StepChange(drift', noise'))
              /\ LET prevProb == prob
                     momentum == IF i = 0 THEN Int0
                                 ELSE Div(Sub(prob', points[i].prob), step)
                     point == [index |-> i, t |-> t, prob |-> prob',
                               momentum |-> momentum,
                               rawChange |-> Sub(prob', prevProb)]
                 IN  points' = Append(points, point)
              /\ Consume(<<u>>)
    /\ i' = i + 1
    /\ pc' = IF i + 1 < length THEN "path" ELSE "stats"
    /\ UNCHANGED <<length, newsEvents, decisions, mean, variance, std,
                   positionSize, newsIdx, source, replay, prev, steps>>

\* the news loop continues at index k, or lines 96-105 start the decision pass
NewsLoop(k) ==
    IF k < Len(points) - 1
    THEN /\ pc' = "news"
         /\ i' = k
         /\ UNCHANGED <<decisions, positionSize, newsIdx>>
    ELSE /\ decisions' = <<>>
         /\ positionSize' = Int0
         /\ newsIdx' = 0
         /\ i' = 0
         /\ pc' = IF 0 < Len(points) THEN "decide" ELSE "done"

\* lines 65-73: mean and std of the momenta
Stats ==
    /\ UNCHANGED page
    /\ pc = "stats"
    /\ mean' = MeanOf(points)
    /\ variance' = VarianceOf(points, mean')
    /\ std' = StdOf(variance')
    /\ NewsLoop(1)
    /\ UNCHANGED <<length, prob, drift, noise, points, newsEvents,
                   source, tape, cursor, replay, prev, fires, steps>>

----------------------------------------------------------------------------
(* News synthesizer *)

zThreshold == Num1_3

\* Relevance without the 0.4 base
RelevanceNoBase(absZ, u) ==
    clamp(Add(Mul(Sub(absZ, zThreshold), Num0_4), Mul(MathRandom(u), Num0_2)),
          Int0, Int1)

\* clamp(0.4 + (absZ - zThreshold) * 0.4 + Math.random() * 0.2, 0, 1)
Relevance(absZ, u) ==
    clamp(Add(Add(Num0_4, Mul(Sub(absZ, zThreshold), Num0_4)),
              Mul(MathRandom(u), Num0_2)),
          Int0, Int1)

Polarity(z) == IF Gt(z, Int0) THEN "positive" ELSE "negative"

\* pool[Math.floor(Math.random() * pool.length)]
generateHeadline(polarity, u) ==
    [pool |-> polarity, item |-> FloorInt(Mul(MathRandom(u), Int4))]

NewsEvent(p, z, u, h) ==
    [t |-> p.t, index |-> p.index, relevance |-> Relevance(MathAbs(z), u),
     polarity |-> Polarity(z), headline |-> generateHeadline(Polarity(z), h)]

\* one iteration of the loop at lines 76-94
NewsStep ==
    /\ UNCHANGED page
    /\ pc = "news"
    /\ i < Len(points) - 1
    /\ \E p \in {points[i + 1]} : \E z \in {Z(p.momentum)} : \E absZ \in {MathAbs(z)} :
           IF Gt(absZ, zThreshold)
           THEN \E c \in Draw(0) :
                  IF Lt(MathRandom(c), Num0_5)
                  THEN \E u \in Draw(1), h \in Draw(2) :
                         /\ newsEvents' = Append(newsEvents, NewsEvent(p, z, u, h))
                         /\ Consume(<<c, u, h>>)
                  ELSE /\ UNCHANGED newsEvents
                       /\ Consume(<<c>>)
           ELSE /\ UNCHANGED newsEvents
                /\ Consume(<<>>)
    /\ NewsLoop(i + 1)
    /\ UNCHANGED <<length, prob, drift, noise, points, mean, variance, std,
                   source, replay, prev, fires, steps>>

----------------------------------------------------------------------------
(* Signal and decision engine *)

maxPosition == Int1

riskBudget == Int1

tradeThreshold == Num0_35

highConviction == Num0_7

\* AdvanceNews that steps past every event not after t, the last included
RECURSIVE AdvanceNewsPastEnd(_, _, _)
AdvanceNewsPastEnd(news, idx, t) ==
    IF idx < Len(news) /\ Le(news[idx + 1].t, t)
    THEN AdvanceNewsPastEnd(news, idx + 1, t)
    ELSE idx

\* while (newsIdx < newsEvents.length - 1 && newsEvents[newsIdx + 1].t <= p.t)
RECURSIVE AdvanceNews(_, _, _)
AdvanceNews(news, idx, t) ==
    IF idx < Len(news) - 1 /\ Le(news[idx + 2].t, t)
    THEN AdvanceNews(news, idx + 1, t)
    ELSE idx

\* news && Math.abs(news.t - p.t) < 6
HasRecentNews(news, idx, t) ==
    /\ idx + 1 \in DOMAIN news
    /\ Lt(MathAbs(Sub(news[idx + 1].t, t)), Int6)

\* clamp((absZ - 0.4) / 2.4, 0, 1)
MomentumComponent(absZ) ==
    clamp(Div(Sub(absZ, Num0_4), Num2_4), Int0, Int1)

\* clamp(0.6 * momentumComponent + 0.4 * newsRelevance, 0, 1)
SignalScore(absZ, newsRelevance) ==
    clamp(Add(Mul(Num0_6, MomentumComponent(absZ)), Mul(Num0_4, newsRelevance)),
          Int0, Int1)

\* Decide that enters whenever the position is not long
DecideLongOnly(signalScore, pos) ==
    LET first == IF Gt(signalScore, tradeThreshold)
                 THEN IF ~Gt(pos, Int0) THEN "enter"
                      ELSE IF Gt(signalScore, highConviction) /\ Lt(pos, maxPosition)
                           THEN "scale" ELSE "hold"
                 ELSE "observe"
    IN  IF Lt(signalScore, Mul(tradeThreshold, Num0_6)) /\ Gt(pos, Int0)
        THEN "exit"
        ELSE first

\* lines 131-146
Decide(signalScore, pos) ==
    LET first == IF Gt(signalScore, tradeThreshold)
                 THEN IF Eq(pos, Int0) THEN "enter"
                      ELSE IF Gt(signalScore, highConviction) /\ Lt(pos, maxPosition)
                           THEN "scale" ELSE "hold"
                 ELSE "observe"
    IN  IF Lt(signalScore, Mul(tradeThreshold, Num0_6)) /\ Gt(pos, Int0)
        THEN "exit"
        ELSE first

\* const direction = z >= 0 ? 1 : -1
Direction(z) == IF Ge(z, Int0) THEN Int1 ELSE IntNeg1

\* signalScore * 0.35
DeltaPositionBase(signalScore) == Mul(signalScore, Num0_35)

\* Decay that leaves the position as it is
DecayNone(pos, factor) == pos

\* positionSize * 0.995 and positionSize * 0.3
Decay(pos, factor) == Mul(pos, factor)

\* UpdatePosition that adds to the position whatever the direction
UpdatePositionLong(decision, pos, signalScore, direction) ==
    CASE decision = "enter" ->
            clamp(Add(pos, DeltaPositionBase(signalScore)),
                  Neg(maxPosition), maxPosition)
      [] decision = "scale" ->
            clamp(Add(pos, Mul(DeltaPositionBase(signalScore), Num0_7)),
                  Neg(maxPosition), maxPosition)
      [] decision = "hold" -> Decay(pos, Num0_995)
      [] decision = "exit" -> Decay(pos, Num0_3)
      [] OTHER -> pos

\* lines 148-161
UpdatePosition(decision, pos, signalScore, direction) ==
    CASE decision = "enter" ->
            clamp(Add(pos, Mul(DeltaPositionBase(signalScore), direction)),
                  Neg(maxPosition), maxPosition)
      [] decision = "scale" ->
            clamp(Add(pos, Mul(Mul(DeltaPositionBase(signalScore), Num0_7),
                               direction)),
                  Neg(maxPosition), maxPosition)
      [] decision = "hold" -> Decay(pos, Num0_995)
      [] decision = "exit" -> Decay(pos, Num0_3)
      [] OTHER -> pos

\* Math.round(x): an integer for a finite x
MathRound(x) == IF x.k = "num" THEN RoundInt(x) ELSE x

\* Math.round((Math.abs(positionSize) / (maxPosition * riskBudget)) * 100)
RiskUtilization(pos) ==
    MathRound(Mul(Div(MathAbs(pos), Mul(maxPosition, riskBudget)), Int100))

\* lines 163-165: the utilization of the position after the decision
Utilized(decision, newPosition) ==
    [decision |-> decision, positionSize |-> newPosition,
     riskUtilization |-> RiskUtilization(newPosition)]

\* lines 148-165: the position after the decision and its utilization
Positioned(decision, signalScore, direction, pos) ==
    Utilized(decision, UpdatePosition(decision, pos, signalScore, direction))

\* lines 128-165: the decision, the position after it and its utilization
Engine(signalScore, direction, pos) ==
    Positioned(Decide(signalScore, pos), signalScore, direction, pos)

\* IsMaterial that also leaves hold out of the log
IsMaterialTrades(decision) == decision \in {"enter", "scale", "exit"}

\* if (decision !== "observe")
IsMaterial(decision) == decision # "observe"

\* lines 184-193
DecisionRecord(p, out, signalScore, newsRelevance) ==
    [t |-> p.t, index |-> p.index, prob |-> p.prob,
     decision |-> out.decision, signalScore |-> signalScore,
     newsRelevance |-> newsRelevance, momentum |-> p.momentum,
     positionSize |-> out.positionSize]

\* one iteration of the loop at lines 105-195
DecisionStep ==
    /\ UNCHANGED page
    /\ pc = "decide"
    /\ i < Len(points)
    /\ \E p \in {points[i + 1]} : \E z \in {Z(p.momentum)} : \E absZ \in {MathAbs(z)} :
       \E idx \in {AdvanceNews(newsEvents, newsIdx, p.t)} :
       \E hasRecentNews \in {HasRecentNews(newsEvents, idx, p.t)} :
       \E newsRelevance \in {IF hasRecentNews THEN newsEvents[idx + 1].relevance
                              ELSE Int0} :
       \E newsPolarity \in {IF hasRecentNews THEN newsEvents[idx + 1].polarity
                             ELSE "neutral"} :
       \E signalScore \in {SignalScore(absZ, newsRelevance)} :
       \E out \in {Engine(signalScore, Direction(z), positionSize)} :
       LET enriched == [index |-> p.index, t |-> p.t, prob |-> p.prob,
                        momentum |-> p.momentum, rawChange |-> p.rawChange,
                        z |-> z, absZ |-> absZ,
                        newsRelevance |-> newsRelevance, newsPolarity |-> newsPolarity,
                        signalScore |-> signalScore, tradeThreshold |-> tradeThreshold,
                        positionSize |-> out.positionSize,
                        riskUtilization |-> out.riskUtilization,
                        decision |-> out.decision]
       IN  /\ newsIdx' = idx
           /\ positionSize' = out.positionSize
           /\ points' = [points EXCEPT ![i + 1] = enriched]
           /\ decisions' = IF IsMaterial(out.decision)
                           THEN Append(decisions,
                                       DecisionRecord(p, out, signalScore, newsRelevance))
                           ELSE decisions
           /\ steps' = Append(steps, [carried |-> positionSize, newsIdx |-> idx])
    /\ i' = i + 1
    /\ pc' = IF i + 1 < Len(points) THEN "decide" ELSE "done"
    /\ UNCHANGED <<length, prob, drift, noise, newsEvents, mean, variance, std,
                   source, tape, cursor, replay, prev, fires>>

----------------------------------------------------------------------------
(* The decision engine on its own: lines 128-195 of the decision pass, fed *)
(* a signalScore and a direction at each point instead of those computed   *)
(* from a path.  The pass starts flat, as at line 98.                      *)

\* number of points the engine is driven through
MaxSteps == 5

\* signalScore values: below the exit threshold, between the thresholds,
\* above tradeThreshold, and above highConviction
Scores == {Int0, Num0_3, Num0_5, Int1}

EngineStep ==
    /\ UNCHANGED page
    /\ pc = "engine"
    /\ i < MaxSteps
    /\ \E signalScore \in Scores, direction \in {Int1, IntNeg1} :
         \E out \in {Engine(signalScore, direction, positionSize)} :
         \E p \in {[index |-> i, t |-> FromInt(i), prob |-> InitProb,
                    momentum |-> Int0]} :
         LET enriched == [index |-> p.index, t |-> p.t,
                          signalScore |-> signalScore,
                          tradeThreshold |-> tradeThreshold,
                          positionSize |-> out.positionSize,
                          riskUtilization |-> out.riskUtilization,
                          decision |-> out.decision]
         IN  /\ positionSize' = out.positionSize
             /\ points' = Append(points, enriched)
             /\ decisions' = IF IsMaterial(out.decision)
                             THEN Append(decisions,
                                         DecisionRecord(p, out, signalScore, Int0))
                             ELSE decisions
             /\ steps' = Append(steps, [carried |-> positionSize, newsIdx |-> newsIdx])
    /\ i' = i + 1
    /\ UNCHANGED <<pc, length, prob, drift, noise, newsEvents, mean, variance, std,
                   newsIdx, source, tape, cursor, replay, prev, fires>>

----------------------------------------------------------------------------
(* Playback: the page state of lines 232-236, updateVisuals, the loop of   *)
(* stepSimulation and the handlers of the three controls.  Times are in    *)
(* whole milliseconds; playbackSpeed is a number.                          *)

\* points in the simulation the page plays
PlaybackLength == 4

\* clicks and speed changes the user makes in one run
MaxClicks == 4

\* milliseconds between one animation frame and the next
FrameGaps == {50, 100}

\* the longest wait since lastFrameTime the clock tells apart
MaxWait == 480

baseStepMs == 120

\* what parseFloat(e.target.value) may return: NaN for a value that is no
\* number, or the number the value spells, here 0, 0.5, 2 and -1
ParsedValues == {NaN, Int0, Num0_5, Int2, IntNeg1}

\* playbackSpeed = isNaN(value) ? 1 : value
SpeedOf(value) == IF IsNaN(value) THEN Int1 ELSE value

\* the values playbackSpeed takes: 1 at line 236, and those the handler sets
Speeds == {Int1} \cup {SpeedOf(value) : value \in ParsedValues}

\* deltaMs >= baseStepMs / playbackSpeed
StepDue(deltaMs, speed) == Ge(FromInt(deltaMs), Div(FromInt(baseStepMs), speed))

\* StepDue for every wait and speed, computed once
StepDueAt == [deltaMs \in 0..MaxWait, speed \in Speeds |-> StepDue(deltaMs, speed)]

\* the time of the next frame.  While the loop waits for a step, a wait
\* beyond MaxWait is told as MaxWait: line 618 compares the wait with
\* baseStepMs / playbackSpeed, which here is at most 240 or is Infinity
FrameTime(t) ==
    IF lastFrameTime # 0 /\ t - lastFrameTime > MaxWait
    THEN lastFrameTime + MaxWait
    ELSE t

\* simData = generateSimulation(): the run-th simulation, of PlaybackLength points
Simulation(run) == [run |-> run, length |-> PlaybackLength]

\* what is drawn after updateVisuals(index): the last point of
\* simData.points.slice(0, index + 1), or what was drawn before for an
\* empty slice
updateVisuals(sim, index, shown) ==
    LET slice == IF index + 1 < 0 THEN Max(sim.length + index + 1, 0)
                 ELSE Min(index + 1, sim.length)
    IN  IF slice = 0 THEN shown ELSE [run |-> sim.run, index |-> slice - 1]

\* lines 232-236 and the DOMContentLoaded handler
PageLoaded ==
    /\ simData = Simulation(0)
    /\ currentIndex = 0
    /\ playing = FALSE
    /\ playbackSpeed = Int1
    /\ lastFrameTime = 0
    /\ timestamp = 0
    /\ pending = 0
    /\ running = 0
    /\ rendered = updateVisuals(Simulation(0), 0, [run |-> 0, index |-> -1])
    /\ clicks = 0

\* the click handler of play-toggle
PlayClick ==
    /\ pc = "page"
    /\ running = 0
    /\ clicks < MaxClicks
    /\ clicks' = clicks + 1
    /\ playing' = ~playing
    /\ IF ~playing
       THEN /\ lastFrameTime' = 0
            /\ pending' = pending + 1
       ELSE UNCHANGED <<lastFrameTime, pending>>
    /\ UNCHANGED <<simData, currentIndex, playbackSpeed, timestamp, running, rendered>>
    /\ UNCHANGED core

\* the click handler of reset-btn: resetSimulation()
ResetClick ==
    /\ pc = "page"
    /\ running = 0
    /\ clicks < MaxClicks
    /\ clicks' = clicks + 1
    /\ simData' = Simulation(simData.run + 1)
    /\ currentIndex' = 0
    /\ lastFrameTime' = 0
    /\ playing' = FALSE
    /\ rendered' = updateVisuals(simData', currentIndex', rendered)
    /\ UNCHANGED <<playbackSpeed, timestamp, pending, running>>
    /\ UNCHANGED core

\* the change handler of speed-select
SpeedChange(value) ==
    /\ pc = "page"
    /\ running = 0
    /\ clicks < MaxClicks
    /\ clicks' = clicks + 1
    /\ playbackSpeed' = SpeedOf(value)
    /\ UNCHANGED <<simData, currentIndex, playing, lastFrameTime, timestamp,
                   pending, running, rendered>>
    /\ UNCHANGED core

\* the browser starts an animation frame: the callbacks requested so far
\* will run, all with the time of this frame
AnimationFrame ==
    /\ pc = "page"
    /\ running = 0
    /\ pending > 0
    /\ \E gap \in FrameGaps : timestamp' = FrameTime(timestamp + gap)
    /\ running' = pending
    /\ pending' = 0
    /\ UNCHANGED <<simData, currentIndex, playing, playbackSpeed, lastFrameTime,
                   rendered, clicks>>
    /\ UNCHANGED core

\* one run of the callback stepSimulation(timestamp), lines 611-633
stepSimulation ==
    /\ pc = "page"
    /\ running > 0
    /\ running' = running - 1
    /\ IF ~playing
       THEN UNCHANGED <<lastFrameTime, currentIndex, playing, rendered, pending>>
       ELSE LET last == IF lastFrameTime = 0 THEN timestamp ELSE lastFrameTime
                deltaMs == timestamp - last
            IN  IF StepDueAt[deltaMs, playbackSpeed]
                THEN /\ lastFrameTime' = timestamp
                     /\ IF currentIndex + 1 >= simData.length - 1
                        THEN /\ currentIndex' = simData.length - 1
                             /\ playing' = FALSE
                             /\ UNCHANGED <<rendered, pending>>
                        ELSE /\ currentIndex' = currentIndex + 1
                             /\ rendered' = updateVisuals(simData, currentIndex', rendered)
                             /\ pending' = pending + 1
                             /\ UNCHANGED playing
                ELSE /\ lastFrameTime' = last
                     /\ pending' = pending + 1
                     /\ UNCHANGED <<currentIndex, playing, rendered>>
    /\ UNCHANGED <<simData, playbackSpeed, timestamp, clicks>>
    /\ UNCHANGED core

----------------------------------------------------------------------------
(* The program: calls of generateSimulation *)

Init ==
    /\ PageLoaded
    /\ pc = "idle"
    /\ length = 0
    /\ i = 0
    /\ prob = Int0
    /\ drift = Int0
    /\ noise = Int0
    /\ points = <<>>
    /\ newsEvents = <<>>
    /\ decisions = <<>>
    /\ mean = Int0
    /\ variance = Int0
    /\ std = Int1
    /\ positionSize = Int0
    /\ newsIdx = 0
    /\ source = Rand
    /\ tape = <<>>
    /\ cursor = 1
    /\ replay = FALSE
    /\ prev = [points |-> <<>>, newsEvents |-> <<>>, decisions |-> <<>>]
    /\ fires = <<>>
    /\ steps = <<>>

Next ==
    \/ Call
    \/ CallAgain
    \/ PathStep
    \/ Stats
    \/ NewsStep
    \/ DecisionStep

Spec == Init /\ [][Next]_vars

InitEngine ==
    /\ PageLoaded
    /\ pc = "engine"
    /\ length = 0
    /\ i = 0
    /\ prob = Int0
    /\ drift = Int0
    /\ noise = Int0
    /\ points = <<>>
    /\ newsEvents = <<>>
    /\ decisions = <<>>
    /\ mean = Int0
    /\ variance = Int0
    /\ std = Int1
    /\ positionSize = Int0
    /\ newsIdx = 0
    /\ source = Rand
    /\ tape = <<>>
    /\ cursor = 1
    /\ replay = FALSE
    /\ prev = [points |-> <<>>, newsEvents |-> <<>>, decisions |-> <<>>]
    /\ fires = <<>>
    /\ steps = <<>>

NextEngine == EngineStep

SpecEngine == InitEngine /\ [][NextEngine]_vars

\* the page after it has loaded
InitPlayback ==
    /\ PageLoaded
    /\ pc = "page"
    /\ length = 0
    /\ i = 0
    /\ prob = Int0
    /\ drift = Int0
    /\ noise = Int0
    /\ points = <<>>
    /\ newsEvents = <<>>
    /\ decisions = <<>>
    /\ mean = Int0
    /\ variance = Int0
    /\ std = Int1
    /\ positionSize = Int0
    /\ newsIdx = 0
    /\ source = Rand
    /\ tape = <<>>
    /\ cursor = 1
    /\ replay = FALSE
    /\ prev = [points |-> <<>>, newsEvents |-> <<>>, decisions |-> <<>>]
    /\ fires = <<>>
    /\ steps = <<>>

NextPlayback ==
    \/ PlayClick
    \/ ResetClick
    \/ \E value \in ParsedValues : SpeedChange(value)
    \/ AnimationFrame
    \/ stepSimulation

SpecPlayback == InitPlayback /\ [][NextPlayback]_vars

\* the browser runs a frame while callbacks wait for one, and runs every
\* callback of the frame it has started
SpecPlaybackFair ==
    /\ InitPlayback
    /\ [][NextPlayback]_vars
    /\ WF_vars(AnimationFrame)
    /\ WF_vars(stepSimulation)

----------------------------------------------------------------------------
(* Properties *)

\* the points the decision pass has enriched so far
Decided == 1..Len(steps)

\* the run has left the path pass
PathDone == pc \in {"stats", "news", "decide", "done"}

\* what the rounding of a few operations may add to a value of this size
Tolerance == Lit(1, 1000000000)

\* x and y are equal but for rounding
Near(x, y) == Le(MathAbs(Sub(x, y)), Tolerance)

\* C1: in a run with length >= 2 every stored point has prob in [0.04, 0.96],
\* and every point the decision pass has stored has positionSize in [-1, 1],
\* signalScore in [0, 1] and riskUtilization in [0, 100].
C1_StoredValuesInRange ==
    length >= 2 =>
        /\ \A k \in 1..Len(points) :
             /\ Ge(points[k].prob, Num0_04)
             /\ Le(points[k].prob, Num0_96)
        /\ \A k \in Decided :
             /\ Ge(points[k].positionSize, IntNeg1)
             /\ Le(points[k].positionSize, Int1)
             /\ Ge(points[k].signalScore, Int0)
             /\ Le(points[k].signalScore, Int1)
             /\ points[k].riskUtilization >= 0
             /\ points[k].riskUtilization <= 100

\* a finished run whose prob was held at the lower limit and whose position
\* has been opened
C1_Witness ==
    /\ pc = "done"
    /\ length >= 2
    /\ \E k \in 1..Len(points) : Eq(points[k].prob, Num0_04)
    /\ \E k \in Decided : ~IsZero(points[k].positionSize)

\* C2: a call with length < 2 never returns a result (points, newsEvents,
\* decisions): it fails before generation.
C2_ShortLengthNeverReturns == pc = "done" => length >= 2

\* C3: wherever signalScore < 0.35 * 0.6 and the carried positionSize is not
\* zero, long or short, the decision is exit.
C3_RiskOffExits ==
    \A k \in Decided :
        (/\ Lt(points[k].signalScore, Mul(Num0_35, Num0_6))
         /\ ~IsZero(steps[k].carried))
            => points[k].decision = "exit"

\* what a decision record and its point must share
LogView(r) ==
    [t |-> r.t, index |-> r.index, decision |-> r.decision,
     positionSize |-> r.positionSize]

\* the decided points up to k whose decision is not observe, in order
RECURSIVE MaterialPoints(_)
MaterialPoints(k) ==
    IF k = 0 THEN <<>>
    ELSE MaterialPoints(k - 1)
             \o (IF points[k].decision # "observe"
                 THEN <<LogView(points[k])>> ELSE <<>>)

\* C4: the decisions log is exactly the points whose decision is not observe,
\* in point order, each with the point's t, index, decision and positionSize
\* after the update.
C4_LogIsMaterialPoints ==
    pc \in {"decide", "done"} =>
        [n \in 1..Len(decisions) |-> LogView(decisions[n])]
            = MaterialPoints(Len(steps))

\* a finished run that logged two decisions and observed at another point
C4_Witness ==
    /\ pc = "done"
    /\ Len(decisions) >= 2
    /\ \E k \in Decided : points[k].decision = "observe"

C6_RegimeFiresAtMostOnce ==
    \A a, b \in 1..Len(fires) :
        a # b => fires[a].regime # fires[b].regime

\* C7 as claimed: at every decided point newsIdx is an index of the news list
\* and is not below the newsIdx of the point before.
C7_CursorInBounds ==
    pc \in {"decide", "done"} =>
        \A k \in Decided :
            /\ steps[k].newsIdx >= 0
            /\ steps[k].newsIdx < Len(newsEvents)
            /\ k > 1 => steps[k - 1].newsIdx <= steps[k].newsIdx

\* C7 as amended: newsIdx never decreases from point to point; it is an index
\* of the news list whenever the list has an event, and stays 0, selecting no
\* event, when the list is empty.
C7_CursorMonotone ==
    pc \in {"decide", "done"} =>
        \A k \in Decided :
            /\ steps[k].newsIdx >= 0
            /\ Len(newsEvents) > 0 => steps[k].newsIdx < Len(newsEvents)
            /\ Len(newsEvents) = 0 => steps[k].newsIdx = 0
            /\ k > 1 => steps[k - 1].newsIdx <= steps[k].newsIdx

\* the cursor has moved on to a second news event
C7_Witness ==
    /\ pc = "done"
    /\ \E k \in Decided : k > 1 /\ steps[k - 1].newsIdx < steps[k].newsIdx

\* C8: a second run of the same length that is fed the draws of the first
\* returns the same points, newsEvents and decisions.
C8_SameDrawsSameOutput == (pc = "done" /\ replay) => Output = prev

\* a second run has returned, and the first had news and decisions
C8_Witness ==
    /\ pc = "done"
    /\ replay
    /\ Len(prev.newsEvents) >= 1
    /\ Len(prev.decisions) >= 1

\* C9: every news event is that of an interior point with |z| > 1.3, carries
\* the point's t and index, has relevance in [0.4, 1] and is positive iff
\* z > 0; events rise strictly in index and t, so no point has two; a run of
\* length 2 has none.
C9_NewsEvents ==
    pc \in {"news", "decide", "done"} =>
        /\ length = 2 => newsEvents = <<>>
        /\ \A n \in 1..Len(newsEvents) :
             LET e == newsEvents[n]
                 z == Z(points[e.index + 1].momentum)
             IN  /\ e.index > 0
                 /\ e.index < length - 1
                 /\ points[e.index + 1].index = e.index
                 /\ points[e.index + 1].t = e.t
                 /\ Gt(MathAbs(z), Num1_3)
                 /\ Ge(e.relevance, Num0_4)
                 /\ Le(e.relevance, Int1)
                 /\ e.polarity \in {"positive", "negative"}
                 /\ e.polarity = "positive" <=> Gt(z, Int0)
                 /\ n > 1 => /\ newsEvents[n - 1].index < e.index
                             /\ Lt(newsEvents[n - 1].t, e.t)

\* a finished run with a positive and a negative news event
C9_Witness ==
    /\ pc = "done"
    /\ \E n \in 1..Len(newsEvents) : newsEvents[n].polarity = "positive"
    /\ \E n \in 1..Len(newsEvents) : newsEvents[n].polarity = "negative"

\* C10: where signalScore > 0.35 the decision is enter iff the carried
\* positionSize is 0; with signalScore > 0.7 and a carried position between
\* 0 and 1, such as 0.5, the decision is scale.
C10_EnterIffFlat ==
    \A k \in Decided :
        Gt(points[k].signalScore, Num0_35) =>
            /\ points[k].decision = "enter" <=> IsZero(steps[k].carried)
            /\ (/\ Gt(points[k].signalScore, Num0_7)
                /\ Gt(steps[k].carried, Int0)
                /\ Lt(steps[k].carried, Int1))
                   => points[k].decision = "scale"

\* a scale decided with signalScore > 0.7 on a carried position near 0.5, and
\* an enter decided from flat
C10_Witness ==
    /\ \E k \in Decided :
         /\ Gt(points[k].signalScore, Num0_7)
         /\ Gt(steps[k].carried, Num0_4)
         /\ Lt(steps[k].carried, Num0_6)
         /\ points[k].decision = "scale"
    /\ \E k \in Decided :
         /\ IsZero(steps[k].carried)
         /\ points[k].decision = "enter"

\* C11: the decision is scale only when the carried position is not zero,
\* signalScore > 0.7 and |positionSize| < 1; with signalScore > 0.7 and the
\* carried position at 1 or at -1 the decision is hold.
C11_ScaleOnlyBelowLimit ==
    \A k \in Decided :
        /\ points[k].decision = "scale" =>
              /\ ~IsZero(steps[k].carried)
              /\ Gt(points[k].signalScore, Num0_7)
              /\ Lt(MathAbs(steps[k].carried), Int1)
        /\ (/\ Gt(points[k].signalScore, Num0_7)
            /\ Eq(MathAbs(steps[k].carried), Int1))
               => points[k].decision = "hold"

\* C12: a point given a non-zero newsRelevance takes it from a news event
\* that is not after the point in time, and from the latest such event.
C12_NewsNotFromFuture ==
    pc \in {"decide", "done"} =>
        \A k \in Decided :
            Gt(points[k].newsRelevance, Int0) =>
                LET e == newsEvents[steps[k].newsIdx + 1]
                IN  /\ Le(e.t, points[k].t)
                    /\ \A n \in 1..Len(newsEvents) :
                         Le(newsEvents[n].t, points[k].t) => Le(newsEvents[n].t, e.t)

\* C13: for every length >= 2 the path pass applies each of the three regimes
\* exactly once, so drift changes at exactly three (regime, index) crossings
\* and ends at 0.02 - 0.03 + 0.025.
C13_EachRegimeOnce ==
    (PathDone /\ length >= 2) =>
        /\ Len(fires) = 3
        /\ \A r \in 1..3 : \E a \in 1..Len(fires) : fires[a].regime = r
        /\ drift = Add(Sub(Num0_02, Num0_03), Num0_025)

\* C14: observe leaves positionSize as the previous point left it, hold
\* multiplies it by 0.995 and exit by 0.3; after hold or exit the position
\* has the same sign, a strictly smaller magnitude and is not flat; a
\* position that grew in magnitude or changed sign was entered or scaled.
C14_OnlyEnterScaleGrow ==
    \A k \in Decided :
        LET before == steps[k].carried
            after == points[k].positionSize
            decision == points[k].decision
        IN  /\ decision = "observe" => after = before
            /\ decision = "hold" => after = Mul(before, Num0_995)
            /\ decision = "exit" => after = Mul(before, Num0_3)
            /\ decision \in {"hold", "exit"} =>
                  /\ after.s = before.s
                  /\ ~IsZero(after)
                  /\ Lt(MathAbs(after), MathAbs(before))
            /\ (\/ Gt(MathAbs(after), MathAbs(before))
                \/ Lt(after, Int0) /\ ~Lt(before, Int0)
                \/ Gt(after, Int0) /\ ~Gt(before, Int0))
                  => decision \in {"enter", "scale"}

\* a run with a hold of a short position, an exit, and an observe that
\* carries a position
C14_Witness ==
    /\ \E k \in Decided :
         points[k].decision = "hold" /\ Lt(steps[k].carried, Int0)
    /\ \E k \in Decided : points[k].decision = "exit"
    /\ \E k \in Decided :
         points[k].decision = "observe" /\ ~IsZero(steps[k].carried)

\* C15: an enter leaves a position that is not zero, has the sign of
\* direction (positive when z >= 0, negative when z < 0) and the magnitude
\* signalScore * 0.35, which lies in (0.1225, 0.35]; no two consecutive
\* points both have decision enter.
C15_EnterPosition ==
    \A k \in Decided :
        points[k].decision = "enter" =>
            LET after == points[k].positionSize
            IN  /\ ~IsZero(after)
                /\ Ge(points[k].z, Int0) => Gt(after, Int0)
                /\ Lt(points[k].z, Int0) => Lt(after, Int0)
                /\ MathAbs(after) = Mul(points[k].signalScore, Num0_35)
                /\ Gt(MathAbs(after), Num0_1225)
                /\ Le(MathAbs(after), Num0_35)
                /\ k > 1 => points[k - 1].decision # "enter"

\* a short entry followed by a decided point
C15_Witness ==
    \E k \in Decided :
        /\ points[k].decision = "enter"
        /\ Lt(points[k].z, Int0)
        /\ k + 1 \in Decided

\* the playback has reached the last point and has stopped
PlaybackEnded == currentIndex = simData.length - 1 /\ ~playing

\* C16: whatever the order of play clicks, reset clicks and animation
\* frames, at most one stepSimulation callback is waiting to run.
C16_OneCallbackPending == pending + running <= 1

\* C17: currentIndex stays within 0 .. points.length - 1; once playing is
\* set and the user does nothing more, the frames the browser delivers lead
\* to currentIndex = points.length - 1 with playing false; from then on, as
\* long as the user does nothing, no frame is requested.
C17_PlaybackEnds ==
    /\ [](0 <= currentIndex /\ currentIndex <= simData.length - 1)
    /\ ((playing /\ clicks = MaxClicks) ~> PlaybackEnded)
    /\ [][(PlaybackEnded /\ clicks' = clicks) => pending' <= pending]_vars

\* C18: every value stepSimulation gives currentIndex is drawn by
\* updateVisuals, the last index points.length - 1 included: once a callback
\* has returned, the charts show the point at currentIndex.
C18_EveryIndexRendered ==
    rendered = [run |-> simData.run, index |-> currentIndex]

====
